---------------------------- MODULE Spec2Model ----------------------------
(***************************************************************************)
(* Model of src/app.py: the ChartEDNSLDSProcessor class (validate_file,    *)
(* process_nslds_file, calculate_risk_scores, export_risk_report) and the  *)
(* Streamlit script main() that drives it from a browser session.          *)
(*                                                                         *)
(* Representation.  A risk_score is a float in [0, 1]; it is modelled as   *)
(* an integer number of 1e-5 units (70000 is 0.7, 39999 is 0.39999).  A    *)
(* slider value is an integer number of 0.05 steps (14 is 0.7).  A file    *)
(* is modelled by what the pandas readers make of it: its byte format,     *)
(* whether a reader of that format can parse it, and its number of data    *)
(* rows.  random.* draws are nondeterministic choices over sample values   *)
(* of the drawn range.  The record fields name, confidence_score,          *)
(* loan_type and key_factors are independent draws that no modelled        *)
(* decision reads; they are left out of the student records.               *)
(***************************************************************************)
EXTENDS Integers, Sequences, FiniteSets

VARIABLES
    call,             \* processor API: the method call and its random draws
    ret,              \* processor API: Pending, or what the call returned or raised
    written,          \* processor API: the workbook the call wrote, or NoFile
    uploaded_file,    \* session: value of the st.file_uploader widget
    session_state,    \* session: st.session_state
    tmp_files,        \* session: temporary files that exist on disk
    ui,               \* session: what the last script run rendered
    high_threshold,   \* settings: value of the "High Risk Threshold" slider
    medium_threshold, \* settings: value of the "Medium Risk Threshold" slider
    settings_saved    \* settings: the last run showed "Settings saved successfully!"

apiVars == <<call, ret, written>>
sessionVars == <<uploaded_file, session_state, tmp_files, ui>>
settingsVars == <<high_threshold, medium_threshold, settings_saved>>
vars == <<call, ret, written, uploaded_file, session_state, tmp_files, ui,
          high_threshold, medium_threshold, settings_saved>>

---------------------------------------------------------------------------
(* Bounds of the model *)

\* calculate_risk_scores draws random.randint(75, 150) records; the model
\* draws 1..MaxStudents (the list is never empty).
MaxStudents == 2

\* Largest number of data rows of a modelled input file.
MaxRows == 2

---------------------------------------------------------------------------
(* Values *)

None == "None"
\* No workbook on disk.
NoFile == [exists |-> FALSE]

Tiers == {"HIGH", "MEDIUM", "LOW"}

\* Tier cut-offs of line 96, in 1e-5 units.
HighCut == 70000
MediumCut == 40000

\* student_id is 'STU' + (i + 1000) zero-padded; the model keeps the number.
IdBase == 1000

\* Sample values of random.betavariate(2, 5), in 1e-5 units.
RiskScores == {39999, 40000, 55000, 70000, 85000}

\* Sample values of random.randint(8000, 75000).
Balances == {8000, 75000}

\* Sample values of random.randint(31, 400).
DaysDelinquent == {31, 200}

\* The classification of line 96.
RiskTier(risk_score) ==
    IF risk_score > HighCut THEN "HIGH"
    ELSE IF risk_score > MediumCut THEN "MEDIUM" ELSE "LOW"

\* One element of the list built by lines 98-117; i is the loop index.
Student(i, risk_score, outstanding_balance, days_delinquent) ==
    [student_id |-> i + IdBase,
     risk_score |-> risk_score,
     risk_tier |-> RiskTier(risk_score),
     outstanding_balance |-> outstanding_balance,
     days_delinquent |-> days_delinquent]

\* The random draws of one loop iteration.
Draws == [risk_score : RiskScores, outstanding_balance : Balances,
          days_delinquent : DaysDelinquent]

\* The draws of a whole call: the loop count and one Draws per iteration.
DrawLists == UNION {[1..n -> Draws] : n \in 1..MaxStudents}

\* calculate_risk_scores with a score that is no draw: every record gets
\* the same score.
calculate_risk_scoresFixedScore(d) ==
    [k \in 1..Len(d) |->
        Student(k - 1, 55000, d[k].outstanding_balance, d[k].days_delinquent)]

\* calculate_risk_scores under the draws d (lines 92-118).
calculate_risk_scores(d) ==
    [k \in 1..Len(d) |->
        Student(k - 1, d[k].risk_score, d[k].outstanding_balance,
                d[k].days_delinquent)]

---------------------------------------------------------------------------
(* Files and the pandas readers *)

\* A file as the readers see it.  wellformed = FALSE covers everything a
\* reader of the file's own format raises on (a zero-byte file, broken
\* quoting, a damaged archive); such a file has no row count.  rows is
\* len(df): the data rows below the header row.
Contents ==
    {c \in [fmt : {"delimited", "spreadsheet"}, wellformed : BOOLEAN,
            rows : 0..MaxRows] : c.wellformed \/ c.rows = 0}

\* Path suffixes: the two that validate_file knows and one it does not.
Suffixes == {".csv", ".xlsx", ".txt"}

Raised(exc) == [raised |-> TRUE, exc |-> exc]
Returned(value) == [raised |-> FALSE, value |-> value]

\* pd.read_csv: parses delimited text, raises on anything else.
read_csv(content) ==
    IF content.fmt = "delimited" /\ content.wellformed
    THEN Returned(content.rows) ELSE Raised("ParserError")

\* pd.read_excel: parses a spreadsheet archive, raises on anything else.
read_excel(content) ==
    IF content.fmt = "spreadsheet" /\ content.wellformed
    THEN Returned(content.rows) ELSE Raised("ValueError")

\* The reader that lines 65-70 pick for a path.
ReaderFor(file_path) ==
    IF file_path = ".csv" THEN "read_csv"
    ELSE IF file_path = ".xlsx" THEN "read_excel" ELSE "none"

Pair(ok, message) == [ok |-> ok, message |-> message]

\* validate_file without the len(df) == 0 test of lines 72-73.
validate_fileNoEmptyCheck(file_path, content) ==
    LET reader == ReaderFor(file_path)
        df == IF reader = "read_csv" THEN read_csv(content)
              ELSE read_excel(content)
    IN  IF reader = "none" THEN Returned(Pair(FALSE, "Unsupported file format"))
        ELSE IF df.raised THEN Returned(Pair(FALSE, "Validation error"))
        ELSE Returned(Pair(TRUE, "File validated"))

\* validate_file (lines 63-77); a path is modelled by its suffix.  The try
\* block spans the whole body, so the method returns and never raises.
validate_file(file_path, content) ==
    LET reader == ReaderFor(file_path)
        df == IF reader = "read_csv" THEN read_csv(content)
              ELSE read_excel(content)
    IN  IF reader = "none" THEN Returned(Pair(FALSE, "Unsupported file format"))
        ELSE IF df.raised THEN Returned(Pair(FALSE, "Validation error"))
        ELSE IF df.value = 0 THEN Returned(Pair(FALSE, "File is empty"))
        ELSE Returned(Pair(TRUE, "File validated"))

\* process_nslds_file (lines 79-90).
process_nslds_file(file_path, content) ==
    LET v == validate_file(file_path, content)
    IN  IF v.raised THEN Returned(Pair(FALSE, "Processing error"))
        ELSE IF ~v.value.ok THEN Returned(Pair(FALSE, v.value.message))
        ELSE Returned(Pair(TRUE, "File processed successfully"))

---------------------------------------------------------------------------
(* export_risk_report *)

RECURSIVE SumBalance(_)
\* sum(s['outstanding_balance'] for s in students)
SumBalance(students) ==
    IF students = <<>> THEN 0
    ELSE Head(students).outstanding_balance + SumBalance(Tail(students))

WithTier(students, tier) ==
    SelectSeq(students, LAMBDA s : s.risk_tier = tier)

\* Lines 123-124 with the filter dropped.
FilterByTierIgnored(students, risk_tier) == students

\* Lines 123-124: `if risk_tier:` keeps the whole list for None.
FilterByTier(students, risk_tier) ==
    IF risk_tier # None THEN WithTier(students, risk_tier) ELSE students

\* Series.round(1) of risk_score * 100, in tenths of a percent: the nearest
\* tenth, a tie going to the even one.
RiskPercentage(risk_score) ==
    LET q == risk_score \div 100
        r == risk_score % 100
    IN  IF 2 * r < 100 THEN q
        ELSE IF 2 * r > 100 THEN q + 1
        ELSE IF q % 2 = 0 THEN q ELSE q + 1

\* Lines 141-148 with the urgent text kept for long delinquencies only.
RecommendationByDays(row) ==
    IF row.risk_tier = "HIGH" /\ row.days_delinquent >= 180
    THEN "Immediate outreach required - Consider payment plan restructuring"
    ELSE IF row.risk_tier \in {"HIGH", "MEDIUM"}
    THEN "Monitor closely - Proactive counseling recommended"
    ELSE "Standard monitoring - Send educational materials"

\* Lines 141-148: the text chosen for one row of report_df.
Recommendation(row) ==
    IF row.risk_tier = "HIGH"
    THEN "Immediate outreach required - Consider payment plan restructuring"
    ELSE IF row.risk_tier = "MEDIUM"
    THEN "Monitor closely - Proactive counseling recommended"
    ELSE "Standard monitoring - Send educational materials"

\* Lines 126-138: the columns of report_df for one student.
ReportRow(s) ==
    [student_id |-> s.student_id,
     risk_tier |-> s.risk_tier,
     risk_percentage |-> RiskPercentage(s.risk_score),
     outstanding_balance |-> s.outstanding_balance,
     days_delinquent |-> s.days_delinquent]

\* Lines 126-150: the 'Risk Assessment' sheet.
DetailSheet(students) ==
    [k \in 1..Len(students) |->
        LET row == ReportRow(students[k])
        IN  [student_id |-> row.student_id,
             risk_tier |-> row.risk_tier,
             risk_percentage |-> row.risk_percentage,
             outstanding_balance |-> row.outstanding_balance,
             days_delinquent |-> row.days_delinquent,
             recommended_action |-> Recommendation(row)]]

\* Lines 157-166 with the balance summed over every student.
SummaryRowTotalOfAll(students, tier) ==
    [risk_level |-> tier,
     student_count |-> Len(WithTier(students, tier)),
     total_balance |-> SumBalance(students)]

\* Lines 157-166: the count and the balance of one tier.
SummaryRow(students, tier) ==
    [risk_level |-> tier,
     student_count |-> Len(WithTier(students, tier)),
     total_balance |-> SumBalance(WithTier(students, tier))]

\* Lines 155-169: the 'Executive Summary' sheet.
SummarySheet(students) ==
    <<SummaryRow(students, "HIGH"), SummaryRow(students, "MEDIUM"),
      SummaryRow(students, "LOW")>>

\* export_risk_report (lines 120-171) when calculate_risk_scores returns
\* `scored`.  pd.DataFrame([]) has no columns, so line 127 raises KeyError
\* for an empty list, before the ExcelWriter of line 152 is opened.
export_risk_report(scored, risk_tier) ==
    LET students == FilterByTier(scored, risk_tier)
    IN  IF students = <<>>
        THEN [ret |-> Raised("KeyError"), written |-> NoFile]
        ELSE [ret |-> Returned("filename"),
              written |-> [exists |-> TRUE,
                           detail |-> DetailSheet(students),
                           summary |-> SummarySheet(students)]]

---------------------------------------------------------------------------
(* The processor API: one method call on a fresh processor *)

TierFilters == Tiers \cup {None}

\* A call that has not returned yet.
Pending == [pending |-> TRUE]

\* The calls a caller can make, with the random draws each will take.
Calls ==
    {[op |-> "validate_file", file_path |-> p, content |-> c] :
        p \in Suffixes, c \in Contents}
    \cup {[op |-> "process_nslds_file", file_path |-> p, content |-> c] :
        p \in Suffixes, c \in Contents}
    \cup {[op |-> "calculate_risk_scores", draws |-> d] : d \in DrawLists}
    \cup {[op |-> "export_risk_report", risk_tier |-> t, draws |-> d] :
        t \in TierFilters, d \in DrawLists}

InitApi ==
    /\ call \in Calls
    /\ ret = Pending
    /\ written = NoFile

CallValidateFile ==
    /\ call.op = "validate_file" /\ ret = Pending
    /\ ret' = validate_file(call.file_path, call.content)
    /\ UNCHANGED <<call, written>>

CallProcessNsldsFile ==
    /\ call.op = "process_nslds_file" /\ ret = Pending
    /\ ret' = process_nslds_file(call.file_path, call.content)
    /\ UNCHANGED <<call, written>>

CallCalculateRiskScores ==
    /\ call.op = "calculate_risk_scores" /\ ret = Pending
    /\ ret' = Returned(calculate_risk_scores(call.draws))
    /\ UNCHANGED <<call, written>>

CallExportRiskReport ==
    /\ call.op = "export_risk_report" /\ ret = Pending
    /\ LET e == export_risk_report(calculate_risk_scores(call.draws),
                                    call.risk_tier)
       IN  /\ ret' = e.ret
           /\ written' = e.written
    /\ UNCHANGED call

---------------------------------------------------------------------------
(* The Streamlit session: every user interaction reruns main() top to     *)
(* bottom, so one action is one whole script run.                          *)

\* st.file_uploader(type=['csv', 'xlsx', 'txt']) (lines 321-325).
UploadTypes == {".csv", ".xlsx", ".txt"}

NoUpload == [present |-> FALSE]

\* The format a file of that name is written in.
FormatOf(name) == IF name = ".xlsx" THEN "spreadsheet" ELSE "delimited"

\* The files a user uploads: each in the format its name says.
Uploads == {u \in [present : {TRUE}, name : UploadTypes, content : Contents] :
                u.content.fmt = FormatOf(u.name)}

\* suffix of tempfile.NamedTemporaryFile (line 342).
TmpSuffix == ".csv"

\* A script run renders counts of records and of HIGH records only, so its
\* draws take a score below and a score above the HIGH cut-off, one balance
\* and one delinquency.
SessionDraws == [risk_score : {39999, 85000},
                 outstanding_balance : {8000}, days_delinquent : {31}]

\* Sample values of random.randint(75, 150) in a script run.
SessionCounts == {1, 2}

SessionDrawLists == UNION {[1..n -> SessionDraws] : n \in SessionCounts}

Hidden == [shown |-> FALSE]

\* Lines 563-567; 'processor' and 'file_name' are keys that do not exist yet.
InitialSessionState ==
    [data_processed |-> FALSE, demo_mode |-> FALSE,
     processor |-> FALSE, file_name |-> None]

\* Tab 1, lines 287-290.
HomeTab(ss, trigger) ==
    IF trigger = "demo" THEN [ss EXCEPT !.demo_mode = TRUE] ELSE ss

\* What a script run holds of a list that calculate_risk_scores returned:
\* who is in it and with which score.
RecordSet(risk_scores) ==
    [k \in 1..Len(risk_scores) |->
        [student_id |-> risk_scores[k].student_id,
         risk_score |-> risk_scores[k].risk_score]]

\* Lines 377-379 run on a raised exception only if they sit in `finally`;
\* here they run on a normal end alone.
AfterFinallyOnReturnOnly(files, tmp_file, escaped) ==
    IF escaped THEN files ELSE files \ {tmp_file}

\* Lines 377-379: the finally clause, run however the try block ends.
AfterFinally(files, tmp_file, escaped) == files \ {tmp_file}

\* Lines 350-353 done whatever process_nslds_file returned.
MarkProcessedAlways(ss, success, name) ==
    [ss EXCEPT !.data_processed = TRUE, !.processor = TRUE, !.file_name = name]

\* Lines 350-353: the session state after process_nslds_file returned.
MarkProcessed(ss, success, name) ==
    IF success
    THEN [ss EXCEPT !.data_processed = TRUE, !.processor = TRUE,
                    !.file_name = name]
    ELSE ss

\* Tab 2, lines 340-379: the 'Process NSLDS File' handler.  d is the draw
\* of line 357.  escapes: an exception leaves the try block while the
\* outcome is rendered (lines 354-376; Streamlit stops or reruns a script
\* by raising inside an st.* call).  Gives the session state, the rendered
\* results and the temporary files left on disk.
UploadTab(ss, upload, tmp, trigger, d, escapes) ==
    IF trigger = "process" /\ upload.present
    THEN LET tmp_file == [suffix |-> TmpSuffix, content |-> upload.content]
             created == tmp \cup {tmp_file}
             r == process_nslds_file(tmp_file.suffix, tmp_file.content)
             success == ~r.raised /\ r.value.ok
             risk_scores == calculate_risk_scores(d)
             attempt == [shown |-> TRUE, success |-> success,
                         escaped |-> escapes,
                         upload_name |-> upload.name,
                         input_rows |-> upload.content.rows,
                         tmp_file |-> tmp_file,
                         tmp_written |-> tmp_file \in created,
                         reader |-> ReaderFor(tmp_file.suffix)]
         IN  [session_state |-> MarkProcessed(ss, success, upload.name),
              processing |->
                 IF escapes THEN attempt
                 ELSE IF success
                 THEN [shown |-> TRUE, success |-> TRUE, escaped |-> FALSE,
                       upload_name |-> upload.name,
                       input_rows |-> upload.content.rows,
                       tmp_file |-> tmp_file,
                       tmp_written |-> tmp_file \in created,
                       reader |-> ReaderFor(tmp_file.suffix),
                       message |-> r.value.message,
                       draws |-> d,
                       records |-> RecordSet(risk_scores),
                       students_processed |-> Len(risk_scores),
                       high_risk_count |-> Len(WithTier(risk_scores, "HIGH"))]
                 ELSE [shown |-> TRUE, success |-> FALSE, escaped |-> FALSE,
                       upload_name |-> upload.name,
                       input_rows |-> upload.content.rows,
                       tmp_file |-> tmp_file,
                       tmp_written |-> tmp_file \in created,
                       reader |-> ReaderFor(tmp_file.suffix),
                       message |-> r.value.message],
              tmp_files |-> AfterFinally(created, tmp_file, escapes),
              aborted |-> escapes]
    ELSE [session_state |-> ss, processing |-> Hidden, tmp_files |-> tmp,
          aborted |-> FALSE]

\* Lines 406 and 500.
HasData(ss) == ss.data_processed \/ ss.demo_mode

\* Tab 3, lines 406-495.  d is the draw of line 414.
DashboardTab(ss, d) ==
    IF HasData(ss)
    THEN LET risk_scores == calculate_risk_scores(d)
         IN  [shown |-> TRUE,
              demo_banner |-> ss.demo_mode,
              stored_processor |-> ss.processor,
              draws |-> d,
              records |-> RecordSet(risk_scores),
              total_students |-> Len(risk_scores),
              high_risk |-> Len(WithTier(risk_scores, "HIGH")),
              medium_risk |-> Len(WithTier(risk_scores, "MEDIUM")),
              low_risk |-> Len(WithTier(risk_scores, "LOW"))]
    ELSE Hidden

\* Tab 4, lines 500-541.  d is the draw of line 121.
ReportsTab(ss, trigger, d) ==
    IF HasData(ss) /\ trigger \in {"high_report", "portfolio_report"}
    THEN LET scored == calculate_risk_scores(d)
             e == export_risk_report(scored,
                     IF trigger = "high_report" THEN "HIGH" ELSE None)
         IN  IF e.ret.raised
             THEN [shown |-> TRUE, report |-> trigger, raised |-> TRUE,
                   stored_processor |-> ss.processor,
                   draws |-> d, records |-> RecordSet(scored)]
             ELSE [shown |-> TRUE, report |-> trigger, raised |-> FALSE,
                   stored_processor |-> ss.processor,
                   draws |-> d, records |-> RecordSet(scored),
                   detail_rows |-> Len(e.written.detail),
                   high_count |-> e.written.summary[1].student_count]
    ELSE Hidden

\* One run of main() (lines 173-561) for the widget that triggered it.  An
\* exception that escapes tab 2 ends the run: tabs 3 to 5 are not rendered.
ScriptRun(upload, trigger, d1, d2, d3, escapes) ==
    LET ss1 == HomeTab(session_state, trigger)
        t2 == UploadTab(ss1, upload, tmp_files, trigger, d1, escapes)
    IN  /\ uploaded_file' = upload
        /\ session_state' = t2.session_state
        /\ tmp_files' = t2.tmp_files
        /\ ui' = [processing |-> t2.processing,
                  dashboard |-> IF t2.aborted THEN Hidden
                                ELSE DashboardTab(t2.session_state, d2),
                  report |-> IF t2.aborted THEN Hidden
                             ELSE ReportsTab(t2.session_state, trigger, d3)]

InitSession ==
    /\ uploaded_file = NoUpload
    /\ session_state = InitialSessionState
    /\ tmp_files = {}
    /\ ui = [processing |-> Hidden, dashboard |-> Hidden, report |-> Hidden]

\* A draw that the run does not make is not enumerated.
DrawsIf(needed) ==
    IF needed THEN SessionDrawLists
    ELSE {[k \in 1..1 |-> CHOOSE x \in SessionDraws : TRUE]}

ClickDemo ==
    \E d2 \in SessionDrawLists :
        ScriptRun(uploaded_file, "demo", d2, d2, d2, FALSE)

ChooseFile ==
    \E f \in Uploads, d2 \in DrawsIf(HasData(session_state)) :
        ScriptRun(f, "none", d2, d2, d2, FALSE)

ClearFile ==
    /\ uploaded_file.present
    /\ \E d2 \in DrawsIf(HasData(session_state)) :
           ScriptRun(NoUpload, "none", d2, d2, d2, FALSE)

ClickProcess ==
    /\ uploaded_file.present
    /\ \E escapes \in BOOLEAN :
         LET r == process_nslds_file(TmpSuffix, uploaded_file.content)
             after == MarkProcessed(session_state, r.value.ok,
                                    uploaded_file.name)
         IN  \E d1 \in DrawsIf(r.value.ok /\ ~escapes),
                d2 \in DrawsIf(HasData(after) /\ ~escapes) :
                 ScriptRun(uploaded_file, "process", d1, d2, d2, escapes)

ClickHighRiskReport ==
    /\ HasData(session_state)
    /\ \E d2 \in SessionDrawLists, d3 \in SessionDrawLists :
           ScriptRun(uploaded_file, "high_report", d2, d2, d3, FALSE)

ClickPortfolioReport ==
    /\ HasData(session_state)
    /\ \E d2 \in SessionDrawLists, d3 \in SessionDrawLists :
           ScriptRun(uploaded_file, "portfolio_report", d2, d2, d3, FALSE)

---------------------------------------------------------------------------
(* Tab 5: the settings sliders *)

\* st.slider(..., 0.0, 1.0, default, 0.05) in 0.05 steps (lines 551-552).
SliderMax == 20
HighDefault == 14
MediumDefault == 8

InitSettings ==
    /\ high_threshold = HighDefault
    /\ medium_threshold = MediumDefault
    /\ settings_saved = FALSE

\* Moving a slider reruns the script; the button of line 560 is not pressed.
SetHighThreshold ==
    \E v \in 0..SliderMax :
        /\ v # high_threshold
        /\ high_threshold' = v
        /\ UNCHANGED medium_threshold
        /\ settings_saved' = FALSE

SetMediumThreshold ==
    \E v \in 0..SliderMax :
        /\ v # medium_threshold
        /\ medium_threshold' = v
        /\ UNCHANGED high_threshold
        /\ settings_saved' = FALSE

\* Lines 560-561: the button reports success and stores nothing.
ClickSaveSettings ==
    /\ settings_saved' = TRUE
    /\ UNCHANGED <<high_threshold, medium_threshold>>

---------------------------------------------------------------------------
(* Specifications *)

\* No direct call of the processor is under way.
NoCall ==
    /\ call = [op |-> "none"]
    /\ ret = Pending
    /\ written = NoFile

Init == InitApi /\ InitSession /\ InitSettings

InitUi == NoCall /\ InitSession /\ InitSettings

\* The processor's methods called directly.
Next ==
    \/ CallValidateFile /\ UNCHANGED <<sessionVars, settingsVars>>
    \/ CallProcessNsldsFile /\ UNCHANGED <<sessionVars, settingsVars>>
    \/ CallCalculateRiskScores /\ UNCHANGED <<sessionVars, settingsVars>>
    \/ CallExportRiskReport /\ UNCHANGED <<sessionVars, settingsVars>>

Spec == Init /\ [][Next]_vars

\* A browser session on the Home, Upload, Dashboard and Reports tabs.
NextSession ==
    \/ ClickDemo /\ UNCHANGED <<apiVars, settingsVars>>
    \/ ChooseFile /\ UNCHANGED <<apiVars, settingsVars>>
    \/ ClearFile /\ UNCHANGED <<apiVars, settingsVars>>
    \/ ClickProcess /\ UNCHANGED <<apiVars, settingsVars>>
    \/ ClickHighRiskReport /\ UNCHANGED <<apiVars, settingsVars>>
    \/ ClickPortfolioReport /\ UNCHANGED <<apiVars, settingsVars>>

SpecSession == InitUi /\ [][NextSession]_vars

\* A browser session on the Settings tab.
NextSettings ==
    \/ SetHighThreshold /\ UNCHANGED <<apiVars, sessionVars>>
    \/ SetMediumThreshold /\ UNCHANGED <<apiVars, sessionVars>>
    \/ ClickSaveSettings /\ UNCHANGED <<apiVars, sessionVars>>

SpecSettings == InitUi /\ [][NextSettings]_vars

---------------------------------------------------------------------------
(* Properties *)

\* The call of the processor API has returned or raised.
Done(op) == call.op = op /\ ret # Pending

\* The list a finished calculate_risk_scores call returned.
Scored == calculate_risk_scores(call.draws)

\* C1: every record produced by calculate_risk_scores with days_delinquent
\* >= 180 has a risk_score in [0.8, 1.0] and the tier HIGH, and every record
\* with days_delinquent < 30 has a risk_score in [0, 0.3).
C1_ScoreFollowsDelinquencyBand ==
    Done("calculate_risk_scores") =>
        \A k \in 1..Len(ret.value) :
            LET s == ret.value[k]
            IN  /\ s.days_delinquent >= 180 =>
                      /\ s.risk_score >= 80000 /\ s.risk_score <= 100000
                      /\ s.risk_tier = "HIGH"
                /\ s.days_delinquent < 30 =>
                      s.risk_score >= 0 /\ s.risk_score < 30000

\* C2: risk_tier is the inclusive threshold function of risk_score:
\* score >= 0.7 gives HIGH, score >= 0.4 gives MEDIUM, anything lower LOW.
C2_InclusiveTierThresholds ==
    Done("calculate_risk_scores") =>
        \A k \in 1..Len(ret.value) :
            LET s == ret.value[k]
            IN  s.risk_tier = IF s.risk_score >= 70000 THEN "HIGH"
                              ELSE IF s.risk_score >= 40000 THEN "MEDIUM"
                              ELSE "LOW"

\* C3: an export with the tier filter HIGH over records none of which is
\* HIGH completes and writes a detail sheet with zero rows and a summary
\* whose HIGH row shows 0 students and a total balance of 0.
C3_EmptyHighExportIsWritten ==
    (/\ Done("export_risk_report")
     /\ call.risk_tier = "HIGH"
     /\ \A k \in 1..Len(Scored) : Scored[k].risk_tier # "HIGH")
    => /\ ~ret.raised
       /\ written.exists
       /\ Len(written.detail) = 0
       /\ written.summary[1].risk_level = "HIGH"
       /\ written.summary[1].student_count = 0
       /\ written.summary[1].total_balance = 0

\* C4: the number of records shown as 'Students Processed' for a file that
\* was processed successfully equals the number of rows of that file.
C4_RecordCountEqualsRowCount ==
    (ui.processing.shown /\ ui.processing.success) =>
        ui.processing.students_processed = ui.processing.input_rows

\* C5: process_nslds_file never raises; it returns failure for a path of an
\* unsupported format, for a file its reader cannot parse and for a file
\* of zero rows, and it returns success exactly when validate_file accepts
\* the file (supported format, parsed, at least one row).
C5_IngestionFailsExactlyOnMalformedInput ==
    Done("process_nslds_file") =>
        LET c == call.content
            supported == call.file_path \in {".csv", ".xlsx"}
            parsed == /\ c.wellformed
                      /\ call.file_path = ".csv" => c.fmt = "delimited"
                      /\ call.file_path = ".xlsx" => c.fmt = "spreadsheet"
            v == validate_file(call.file_path, c)
        IN  /\ ~ret.raised
            /\ ret.value.ok <=> (supported /\ parsed /\ c.rows > 0)
            /\ ret.value.ok <=> (~v.raised /\ v.value.ok)
            /\ ~ret.value.ok =>
                  ret.value.message \in {"Unsupported file format",
                      "Validation error", "File is empty", "Processing error"}

\* C5 witness: a well-formed .csv file of zero rows was refused as empty.
C5_Witness ==
    /\ Done("process_nslds_file")
    /\ call.file_path = ".csv"
    /\ call.content = [fmt |-> "delimited", wellformed |-> TRUE, rows |-> 0]
    /\ ret = Returned(Pair(FALSE, "File is empty"))

\* C6: the reader that parses an uploaded file is the one of the file's
\* format: read_csv for a .csv upload, read_excel for an .xlsx upload.
C6_ReaderMatchesUploadFormat ==
    ui.processing.shown =>
        /\ ui.processing.upload_name = ".csv" =>
              ui.processing.reader = "read_csv"
        /\ ui.processing.upload_name = ".xlsx" =>
              ui.processing.reader = "read_excel"

\* C7: the detail sheet an export writes holds exactly the scored records
\* whose tier equals the filter, or every scored record without a filter,
\* one row per record and in the order of the record list.
C7_DetailRowsAreTheFilteredRecords ==
    (Done("export_risk_report") /\ written.exists) =>
        LET kept == IF call.risk_tier = None THEN Scored
                    ELSE SelectSeq(Scored,
                             LAMBDA s : s.risk_tier = call.risk_tier)
            detail == written.detail
        IN  /\ Len(detail) = Len(kept)
            /\ \A k \in 1..Len(kept) :
                  /\ detail[k].student_id = kept[k].student_id
                  /\ detail[k].risk_tier = kept[k].risk_tier
                  /\ detail[k].outstanding_balance = kept[k].outstanding_balance
                  /\ detail[k].days_delinquent = kept[k].days_delinquent

\* C7 witness: a HIGH export over a HIGH and a non-HIGH record wrote one row.
C7_Witness ==
    /\ Done("export_risk_report") /\ written.exists
    /\ call.risk_tier = "HIGH"
    /\ Len(Scored) = 2
    /\ Scored[1].risk_tier # "HIGH" /\ Scored[2].risk_tier = "HIGH"
    /\ Len(written.detail) = 1
    /\ written.detail[1].student_id = IdBase + 1

\* Indices of the rows of a sheet with a tier.
RowsOfTier(rows, tier) == {k \in 1..Len(rows) : rows[k].risk_tier = tier}

RECURSIVE BalanceOfRows(_, _)
\* Sum of outstanding_balance over the rows with the indices ks.
BalanceOfRows(rows, ks) ==
    IF ks = {} THEN 0
    ELSE LET k == CHOOSE x \in ks : TRUE
         IN  rows[k].outstanding_balance + BalanceOfRows(rows, ks \ {k})

\* C8: the summary sheet has one row for each of HIGH, MEDIUM, LOW; its
\* student count is the number of detail rows of that tier, its total
\* balance the sum of their outstanding_balance; the three counts sum to
\* the number of detail rows.
C8_SummaryAgreesWithDetail ==
    (Done("export_risk_report") /\ written.exists) =>
        LET summary == written.summary
            detail == written.detail
        IN  /\ Len(summary) = 3
            /\ <<summary[1].risk_level, summary[2].risk_level,
                  summary[3].risk_level>> = <<"HIGH", "MEDIUM", "LOW">>
            /\ \A i \in 1..3 :
                  LET ks == RowsOfTier(detail, summary[i].risk_level)
                  IN  /\ summary[i].student_count = Cardinality(ks)
                      /\ summary[i].total_balance = BalanceOfRows(detail, ks)
            /\ summary[1].student_count + summary[2].student_count
                  + summary[3].student_count = Len(detail)

\* C8 witness: an unfiltered export over two records of different tiers
\* and different balances.
C8_Witness ==
    /\ Done("export_risk_report") /\ written.exists
    /\ call.risk_tier = None
    /\ Len(written.detail) = 2
    /\ written.detail[1].risk_tier = "HIGH"
    /\ written.detail[2].risk_tier = "MEDIUM"
    /\ written.detail[1].outstanding_balance
         # written.detail[2].outstanding_balance
    /\ written.summary[1].student_count = 1
    /\ written.summary[3].student_count = 0

\* C9: the recommendation of a detail row is fixed by its tier: the
\* urgent-outreach text for HIGH, the monitoring text for MEDIUM, the
\* informational text for LOW; rows of one tier share their recommendation
\* whatever their other fields.
C9_RecommendationByTierAlone ==
    (Done("export_risk_report") /\ written.exists) =>
        LET detail == written.detail
        IN  /\ \A k \in 1..Len(detail) :
                  /\ detail[k].risk_tier = "HIGH" =>
                        detail[k].recommended_action =
                          "Immediate outreach required - Consider payment plan restructuring"
                  /\ detail[k].risk_tier = "MEDIUM" =>
                        detail[k].recommended_action =
                          "Monitor closely - Proactive counseling recommended"
                  /\ detail[k].risk_tier = "LOW" =>
                        detail[k].recommended_action =
                          "Standard monitoring - Send educational materials"
            /\ \A j, k \in 1..Len(detail) :
                  detail[j].risk_tier = detail[k].risk_tier =>
                      detail[j].recommended_action = detail[k].recommended_action

\* C9 witness: two HIGH rows that differ in days delinquent and in balance
\* carry the same recommendation.
C9_Witness ==
    /\ Done("export_risk_report") /\ written.exists
    /\ Len(written.detail) = 2
    /\ written.detail[1].risk_tier = "HIGH"
    /\ written.detail[2].risk_tier = "HIGH"
    /\ written.detail[1].days_delinquent < 180
    /\ written.detail[2].days_delinquent >= 180
    /\ written.detail[1].outstanding_balance
         # written.detail[2].outstanding_balance
    /\ written.detail[1].recommended_action
         = written.detail[2].recommended_action

\* C10: whatever the sliders of the settings tab are set to, the configured
\* HIGH threshold is at least the configured MEDIUM threshold.
C10_ThresholdsStayOrdered == high_threshold >= medium_threshold

\* The record set of a view of the last script run is the one its own call
\* of calculate_risk_scores drew: record k is student IdBase + k - 1 with
\* the k-th drawn score.
FromOwnDraws(view) ==
    /\ Len(view.records) = Len(view.draws)
    /\ \A k \in 1..Len(view.records) :
          /\ view.records[k].student_id = IdBase + k - 1
          /\ view.records[k].risk_score = view.draws[k].risk_score

\* The last run rendered processing results.
ResultsShown ==
    ui.processing.shown /\ ui.processing.success /\ ~ui.processing.escaped

\* C11: scoring is non-deterministic.  Each call of calculate_risk_scores
\* returns what its own random draws give, whatever processor and processed
\* file it is called for, so the record sets behind the processing results,
\* the dashboard and an exported report are fixed by separate draws and can
\* differ in the score of one student_id.
C11_EachCallScoresFromItsOwnDraws ==
    /\ ResultsShown => FromOwnDraws(ui.processing)
    /\ ui.dashboard.shown => FromOwnDraws(ui.dashboard)
    /\ ui.report.shown => FromOwnDraws(ui.report)

\* C11 witness: one run called calculate_risk_scores twice on the processor
\* it had just stored for one processed file, and the processing results
\* and the dashboard hold different scores for the same student_id.
C11_Witness ==
    /\ ResultsShown /\ ui.dashboard.shown
    /\ session_state.processor /\ ui.dashboard.stored_processor
    /\ session_state.file_name = ui.processing.upload_name
    /\ ui.processing.records[1].student_id = ui.dashboard.records[1].student_id
    /\ ui.processing.records[1].risk_score # ui.dashboard.records[1].risk_score

\* The session state keeps its keys together and the gated tabs closed:
\* 'processor' and 'file_name' exist only with data_processed, and the
\* dashboard and a report are rendered only with data_processed or
\* demo_mode.
SessionConsistent ==
    /\ (session_state.processor \/ session_state.file_name # None)
          => session_state.data_processed
    /\ ui.dashboard.shown => HasData(session_state)
    /\ ui.report.shown => HasData(session_state)

\* One script run: data_processed turns true only in a run whose
\* process_nslds_file call returned success, and a run whose call returned
\* failure leaves data_processed, processor, file_name and demo_mode alone.
SessionStep ==
    /\ (session_state'.data_processed /\ ~session_state.data_processed)
          => (ui'.processing.shown /\ ui'.processing.success)
    /\ (ui'.processing.shown /\ ~ui'.processing.success)
          => session_state' = session_state

\* C12: after any sequence of UI actions, data_processed is true only if an
\* earlier process_nslds_file call returned success; 'processor' and
\* 'file_name' are in the session state only if data_processed is true; a
\* failed process attempt leaves data_processed, processor, file_name and
\* demo_mode unchanged; the dashboard and report generation are reached
\* only when data_processed or demo_mode is true.
C12_SessionStateDiscipline ==
    /\ ~session_state.data_processed
    /\ SessionConsistent
    /\ [][SessionConsistent' /\ SessionStep]_vars

\* C12 witness: in demo mode a process attempt failed; nothing was marked
\* processed and the dashboard is shown for demo_mode alone.
C12_Witness ==
    /\ ui.processing.shown /\ ~ui.processing.success
    /\ session_state.demo_mode
    /\ ~session_state.data_processed
    /\ ~session_state.processor
    /\ session_state.file_name = None
    /\ ui.dashboard.shown

\* C13: the temporary file of a processing attempt does not outlive the
\* attempt: once the 'Process NSLDS File' handler has finished, whether
\* process_nslds_file returned success or failure or an exception escaped
\* while the results were rendered, the file it wrote is gone and no
\* temporary file is left on disk.
C13_TemporaryFileIsRemoved ==
    /\ tmp_files = {}
    /\ ui.processing.shown =>
          /\ ui.processing.tmp_written
          /\ ui.processing.tmp_file \notin tmp_files

\* C13 witness: process_nslds_file returned success, an exception escaped
\* while the results were rendered, and the file that was written is gone.
C13_Witness ==
    /\ ui.processing.shown
    /\ ui.processing.success /\ ui.processing.escaped
    /\ session_state.data_processed
    /\ ~ui.dashboard.shown
    /\ ui.processing.tmp_written
    /\ ui.processing.tmp_file \notin tmp_files

===========================================================================
